---------------------------- MODULE Spec2Model ----------------------------
(***************************************************************************)
(* A model of the transaction-details extractor (src/main.py): the line    *)
(* scanner extract_transaction_data with its label patterns, the amount    *)
(* and date normalizers, and the Streamlit script main() that accumulates  *)
(* one record per uploaded image in st.session_state and totals the        *)
(* Amount column.                                                          *)
(*                                                                         *)
(* A Python str is a sequence of one-character strings.  A text (the       *)
(* recognizer's output) is the sequence of its "\n"-separated raw lines,   *)
(* so that the empty str "" is << <<>> >>, what "".split("\n") gives.      *)
(***************************************************************************)
EXTENDS Integers, Sequences, FiniteSets, TLC

VARIABLES
    \* ---- main(): the session and one run of the script
    all_transaction_details, \* st.session_state.all_transaction_details
    uploaded_files,          \* the batch st.file_uploader returned to this run
    processed_files,         \* the set built at line 207 of this run
    idx,                     \* the uploaded files the loop is done with
    run_log,                 \* per uploaded file so far, what the loop did
    pc,                      \* "idle" | "loop"
    df_amount,               \* df["Amount"] after pd.to_numeric (line 262)
    total_amount,            \* <<df["Amount"].sum()>> (line 287), <<>> before any table
    \* ---- extract_transaction_data(text), line by line
    text,                    \* the argument
    lines,                   \* split_text_into_lines(text)
    li,                      \* lines consumed so far
    transaction_data,        \* the record being filled
    xpc,                     \* "off" | "scan" | "returned"
    \* ---- extract_amount_only(amount_str)
    amount_in,               \* the structured raw amount the argument is rendered from
    amount_out,              \* the returned str
    apc,                     \* "off" | "call" | "returned"
    \* ---- extract_date_time(date_time_str)[0], applied once and twice
    date_in,
    date_out1,
    date_out2,
    dpc                      \* "off" | "call" | "once" | "twice"

appVars == <<all_transaction_details, uploaded_files, processed_files, idx, run_log,
             pc, df_amount, total_amount>>
exVars == <<text, lines, li, transaction_data, xpc>>
amtVars == <<amount_in, amount_out, apc>>
dateVars == <<date_in, date_out1, date_out2, dpc>>
vars == <<appVars, exVars, amtVars, dateVars>>

----------------------------------------------------------------------------
(* Characters and str helpers *)

\* Python's None, and a failed re search: neither is a sequence of characters.
None == <<"None">>
NoMatch == <<"NoMatch">>

\* The dash-like glyph U+2014 an OCR pass produces for a minus sign.
EmDash == "U+2014"

Digit == {"0", "1", "2", "3", "4", "5", "6", "7", "8", "9"}
Letter ==
    {"A", "B", "C", "D", "E", "F", "G", "H", "I", "J", "K", "L", "M", "N", "O",
     "P", "Q", "R", "S", "T", "U", "V", "W", "X", "Y", "Z",
     "a", "b", "c", "d", "e", "f", "g", "h", "i", "j", "k", "l", "m", "n", "o",
     "p", "q", "r", "s", "t", "u", "v", "w", "x", "y", "z"}

\* \s, \d and \w of the re module, on the characters of the model
IsSpace(c) == c = " "
Word == Digit \cup Letter \cup {"_"}

DigitChar == <<"0", "1", "2", "3", "4", "5", "6", "7", "8", "9">>
DigitVal(c) == CHOOSE n \in 0..9 : DigitChar[n + 1] = c

\* s[p:] with p counted from 1
From(s, p) == SubSeq(s, p, Len(s))

StartsWith(s, prefix) ==
    /\ Len(prefix) <= Len(s)
    /\ SubSeq(s, 1, Len(prefix)) = prefix

\* the number of consecutive characters of s from position p on that are in
\* the character class, at most max of them
RECURSIVE Run(_, _, _, _)
Run(s, p, max, class) ==
    IF max = 0 \/ p > Len(s) \/ s[p] \notin class THEN 0
    ELSE 1 + Run(s, p + 1, max - 1, class)

\* str.strip()
RECURSIVE LStrip(_)
LStrip(s) == IF s # <<>> /\ IsSpace(s[1]) THEN LStrip(Tail(s)) ELSE s

RECURSIVE RStrip(_)
RStrip(s) ==
    IF s # <<>> /\ IsSpace(s[Len(s)]) THEN RStrip(SubSeq(s, 1, Len(s) - 1)) ELSE s

Strip(s) == LStrip(RStrip(s))

\* str.replace(c, "")
RECURSIVE Remove(_, _)
Remove(s, c) ==
    IF s = <<>> THEN <<>>
    ELSE (IF s[1] = c THEN <<>> ELSE <<s[1]>>) \o Remove(Tail(s), c)

\* the value of a str of decimal digits
RECURSIVE DecVal(_)
DecVal(s) ==
    IF s = <<>> THEN 0 ELSE 10 * DecVal(SubSeq(s, 1, Len(s) - 1)) + DigitVal(s[Len(s)])

\* n as decimal digits, zero-padded to at least width characters
RECURSIVE Dec(_, _)
Dec(n, width) ==
    IF n < 10 /\ width <= 1 THEN <<DigitChar[n + 1]>>
    ELSE Dec(n \div 10, width - 1) \o <<DigitChar[(n % 10) + 1]>>

----------------------------------------------------------------------------
(* The label patterns, lines 22-30: ^(L1|L2|...)\s?:?\s?(.+) *)

transtime_labels ==
    << <<"T", "r", "a", "n", "s", "a", "c", "t", "i", "o", "n", " ", "T", "i", "m", "e">>,
       <<"D", "a", "t", "e", " ", "a", "n", "d", " ", "T", "i", "m", "e">>,
       <<"D", "a", "t", "e", " ", "&", " ", "T", "i", "m", "e">>,
       <<"T", "r", "a", "n", "s", "a", "c", "t", "i", "o", "n", " ", "D", "a", "t", "e">> >>
transno_labels ==
    << <<"T", "r", "a", "n", "s", "a", "c", "t", "i", "o", "n", " ", "N", "o">>,
       <<"T", "r", "a", "n", "s", "a", "c", "t", "i", "o", "n", " ", "I", "D">> >>
transtype_labels ==
    << <<"T", "r", "a", "n", "s", "a", "c", "t", "i", "o", "n", " ", "T", "y", "p", "e">>,
       <<"T", "y", "p", "e">> >>
amount_data_labels ==
    << <<"A", "m", "o", "u", "n", "t">>,
       <<"T", "o", "t", "a", "l", " ", "A", "m", "o", "u", "n", "t">> >>
sender_labels ==
    << <<"F", "r", "o", "m">>,
       <<"S", "e", "n", "d", "e", "r", " ", "N", "a", "m", "e">>,
       <<"S", "e", "n", "d", " ", "F", "r", "o", "m">> >>
receiver_labels ==
    << <<"T", "o">>,
       <<"R", "e", "c", "e", "i", "v", "e", "r", " ", "N", "a", "m", "e">>,
       <<"S", "e", "n", "d", " ", "T", "o">> >>
notes_labels ==
    << <<"N", "o", "t", "e", "s">>,
       <<"N", "o", "t", "e">>,
       <<"P", "u", "r", "p", "o", "s", "e">>,
       <<"R", "e", "a", "s", "o", "n">> >>

\* The ways \s?:?\s? can consume, in the order a backtracking matcher tries
\* them (each optional item is greedy): <<first \s, the colon, second \s>>.
SeparatorChoices ==
    << <<1, 1, 1>>, <<1, 1, 0>>, <<1, 0, 1>>, <<1, 0, 0>>,
       <<0, 1, 1>>, <<0, 1, 0>>, <<0, 0, 1>>, <<0, 0, 0>> >>

\* Whether the separator choice c fits the str rest (what follows the label)
\* and leaves at least one character for (.+)
SeparatorFits(rest, c) ==
    LET n == c[1] + c[2] + c[3]
    IN /\ Len(rest) >= n + 1
       /\ c[1] = 1 => IsSpace(rest[1])
       /\ c[2] = 1 => rest[c[1] + 1] = ":"
       /\ c[3] = 1 => IsSpace(rest[c[1] + c[2] + 1])

\* group(2) of \s?:?\s?(.+) matched at the start of rest, or NoMatch
RECURSIVE ValueAfterLabel(_, _)
ValueAfterLabel(rest, k) ==
    IF k > Len(SeparatorChoices) THEN NoMatch
    ELSE IF SeparatorFits(rest, SeparatorChoices[k])
         THEN LET c == SeparatorChoices[k]
              IN From(rest, c[1] + c[2] + c[3] + 1)
         ELSE ValueAfterLabel(rest, k + 1)

\* pattern.search(line).group(2) for a label pattern, or NoMatch: the
\* alternatives are tried left to right, and the next one is tried when the
\* rest of the pattern cannot match after the current one.
RECURSIVE LabelSearch(_, _, _)
LabelSearch(labels, line, k) ==
    IF k > Len(labels) THEN NoMatch
    ELSE LET v == IF StartsWith(line, labels[k])
                  THEN ValueAfterLabel(From(line, Len(labels[k]) + 1), 1)
                  ELSE NoMatch
         IN IF v # NoMatch THEN v ELSE LabelSearch(labels, line, k + 1)

PatternGroup2(labels, line) == LabelSearch(labels, line, 1)

----------------------------------------------------------------------------
(* split_text_into_lines, lines 73-81 *)

split_text_into_lines(t) ==
    LET stripped == [i \in 1..Len(t) |-> Strip(t[i])]
    IN SelectSeq(stripped, LAMBDA l : l # <<>>)

----------------------------------------------------------------------------
(* extract_amount_only, lines 118-132 *)

\* (?:,\d*)* from position p: the position after the last group consumed
RECURSIVE CommaGroups(_, _)
CommaGroups(s, p) ==
    IF p <= Len(s) /\ s[p] = ","
    THEN CommaGroups(s, p + 1 + Run(s, p + 1, Len(s), Digit))
    ELSE p

\* amount_only_pattern.search(amount_str).group(): every item of
\* -?\d*(?:,\d*)*(?:\.\d{2})? is optional, so the search succeeds at the
\* first position of any str, with whatever the greedy items take there.
AmountOnlyMatch(s) ==
    LET p1 == IF s # <<>> /\ s[1] = "-" THEN 2 ELSE 1
        p2 == p1 + Run(s, p1, Len(s), Digit)
        p3 == CommaGroups(s, p2)
        p4 == IF p3 <= Len(s) /\ s[p3] = "." /\ Run(s, p3 + 1, 2, Digit) = 2
              THEN p3 + 3 ELSE p3
    IN SubSeq(s, 1, p4 - 1)

extract_amount_only(amount_str) ==
    LET amount_pattern_match == AmountOnlyMatch(amount_str)
    IN IF amount_pattern_match # NoMatch
       THEN Strip(Remove(amount_pattern_match, "-"))
       ELSE amount_str

----------------------------------------------------------------------------
(* extract_date_time, lines 84-115: the formatted date.  The formatted time
   is computed from a match of time_pattern, which dateutil always parses,
   and the one caller (line 157) drops it. *)

\* The year dateutil's parserinfo reads from the clock when it is built; a
\* two-digit year is placed within 50 years of it.
CurrentYear == 2026
Century == (CurrentYear \div 100) * 100

\* dateutil's month names, as they are capitalised on a receipt.  Their
\* position in the sequence, modulo 12, is the month.
MonthNames ==
    << <<"J", "a", "n", "u", "a", "r", "y">>, <<"F", "e", "b", "r", "u", "a", "r", "y">>,
       <<"M", "a", "r", "c", "h">>, <<"A", "p", "r", "i", "l">>, <<"M", "a", "y">>,
       <<"J", "u", "n", "e">>, <<"J", "u", "l", "y">>, <<"A", "u", "g", "u", "s", "t">>,
       <<"S", "e", "p", "t", "e", "m", "b", "e", "r">>, <<"O", "c", "t", "o", "b", "e", "r">>,
       <<"N", "o", "v", "e", "m", "b", "e", "r">>, <<"D", "e", "c", "e", "m", "b", "e", "r">>,
       <<"J", "a", "n">>, <<"F", "e", "b">>, <<"M", "a", "r">>, <<"A", "p", "r">>,
       <<"M", "a", "y">>, <<"J", "u", "n">>, <<"J", "u", "l">>, <<"A", "u", "g">>,
       <<"S", "e", "p">>, <<"O", "c", "t">>, <<"N", "o", "v">>, <<"D", "e", "c">> >>

\* parserinfo.month(name): 1..12, or 0 for a word that is no month
MonthOf(w) ==
    IF \E k \in 1..Len(MonthNames) : MonthNames[k] = w
    THEN (((CHOOSE k \in 1..Len(MonthNames) : MonthNames[k] = w) - 1) % 12) + 1
    ELSE 0

\* \d{1,2}[/-]\d{1,2}[/-]\d{2,4} at position p: the length matched, 0 for none.
\* The two \d{1,2} are tried greedily, in a backtracking matcher's order.
NumericDateChoices == << <<2, 2>>, <<2, 1>>, <<1, 2>>, <<1, 1>> >>

NumericDateFits(s, p, c) ==
    LET q == p + c[1] + 1
        r == q + c[2] + 1
    IN /\ Run(s, p, c[1], Digit) = c[1]
       /\ p + c[1] <= Len(s) /\ s[p + c[1]] \in {"/", "-"}
       /\ Run(s, q, c[2], Digit) = c[2]
       /\ q + c[2] <= Len(s) /\ s[q + c[2]] \in {"/", "-"}
       /\ Run(s, r, 4, Digit) >= 2

RECURSIVE NumericDateAt(_, _, _)
NumericDateAt(s, p, k) ==
    IF k > Len(NumericDateChoices) THEN 0
    ELSE IF NumericDateFits(s, p, NumericDateChoices[k])
         THEN LET c == NumericDateChoices[k]
              IN c[1] + 1 + c[2] + 1 + Run(s, p + c[1] + c[2] + 2, 4, Digit)
         ELSE NumericDateAt(s, p, k + 1)

\* \d{1,2} \w+ \d{4} at position p: the length matched, 0 for none.  \w+ ends
\* where the word ends, since a space must follow it.
DayMonthYearWith(s, p, d) ==
    LET w == Run(s, p + d + 1, Len(s), Word)
        y == p + d + 1 + w + 1
    IN IF /\ Run(s, p, d, Digit) = d
          /\ p + d <= Len(s) /\ s[p + d] = " "
          /\ w >= 1
          /\ y - 1 <= Len(s) /\ s[y - 1] = " "
          /\ Run(s, y, 4, Digit) = 4
       THEN d + 1 + w + 1 + 4
       ELSE 0

DayMonthYearAt(s, p) ==
    IF DayMonthYearWith(s, p, 2) # 0 THEN DayMonthYearWith(s, p, 2)
    ELSE DayMonthYearWith(s, p, 1)

\* \w+ \d{1,2}, \d{4} at position p: the length matched, 0 for none
MonthDayYearWith(s, p, d) ==
    LET w == Run(s, p, Len(s), Word)
        q == p + w + 1
    IN IF /\ w >= 1
          /\ q - 1 <= Len(s) /\ s[q - 1] = " "
          /\ Run(s, q, d, Digit) = d
          /\ q + d + 1 <= Len(s) /\ s[q + d] = "," /\ s[q + d + 1] = " "
          /\ Run(s, q + d + 2, 4, Digit) = 4
       THEN w + 1 + d + 2 + 4
       ELSE 0

MonthDayYearAt(s, p) ==
    IF MonthDayYearWith(s, p, 2) # 0 THEN MonthDayYearWith(s, p, 2)
    ELSE MonthDayYearWith(s, p, 1)

\* the three alternatives of date_pattern at position p, left to right
DatePatternAt(s, p) ==
    IF NumericDateAt(s, p, 1) # 0 THEN NumericDateAt(s, p, 1)
    ELSE IF DayMonthYearAt(s, p) # 0 THEN DayMonthYearAt(s, p)
    ELSE MonthDayYearAt(s, p)

\* date_pattern.search(s).group(): the leftmost match, or NoMatch
RECURSIVE DateSearch(_, _)
DateSearch(s, p) ==
    IF p > Len(s) THEN NoMatch
    ELSE IF DatePatternAt(s, p) # 0 THEN SubSeq(s, p, p + DatePatternAt(s, p) - 1)
    ELSE DateSearch(s, p + 1)

\* parserinfo.convertyear
ConvertYear(year, century_specified) ==
    IF year < 100 /\ ~century_specified
    THEN LET y == year + Century
         IN IF y >= CurrentYear + 50 THEN y - 100
            ELSE IF y < CurrentYear - 50 THEN y + 100
            ELSE y
    ELSE year

IsLeap(y) == (y % 4 = 0 /\ y % 100 # 0) \/ y % 400 = 0
DaysInMonth(y, m) ==
    IF m = 2 THEN (IF IsLeap(y) THEN 29 ELSE 28)
    ELSE IF m \in {4, 6, 9, 11} THEN 30 ELSE 31

\* datetime's own check of the values the parser resolved; a date it refuses
\* raises ValueError
ValidDate(y, m, d) ==
    /\ y \in 1..9999
    /\ m \in 1..12
    /\ d \in 1..DaysInMonth(y, m)

ParseError == [ok |-> FALSE, year |-> 0, month |-> 0, day |-> 0]
Resolved(y, m, d) ==
    IF ValidDate(y, m, d) THEN [ok |-> TRUE, year |-> y, month |-> m, day |-> d]
    ELSE ParseError

\* dateutil's _ymd.resolve_ymd for three numbers a, b, c written with one
\* separator, with dayfirst and yearfirst left False: a token of more than two
\* digits is the year (and states its century).
ResolveNumeric(ta, tb, tc) ==
    LET a == DecVal(ta)
        b == DecVal(tb)
        c == DecVal(tc)
        cs == Len(tc) > 2
    IN IF a > 31 THEN Resolved(ConvertYear(a, cs), b, c)
       ELSE IF a > 12 THEN Resolved(ConvertYear(c, cs), b, a)
       ELSE Resolved(ConvertYear(c, cs), a, b)

\* parser.parse(m) for a str m that date_pattern matched
ParseDate(m) ==
    LET a == Run(m, 1, Len(m), Digit)
    IN IF a >= 1 /\ m[a + 1] \in {"/", "-"}
       THEN LET b == Run(m, a + 2, Len(m), Digit)
            IN ResolveNumeric(SubSeq(m, 1, a), SubSeq(m, a + 2, a + 1 + b),
                              From(m, a + b + 3))
       ELSE IF a >= 1 /\ m[a + 1] = " " /\ Run(m, a + 2, Len(m), Digit) = 0
       THEN \* day, month name, four-digit year
            LET w == Run(m, a + 2, Len(m), Word)
                month == MonthOf(SubSeq(m, a + 2, a + 1 + w))
            IN IF month = 0 THEN ParseError
               ELSE Resolved(DecVal(From(m, a + w + 3)), month, DecVal(SubSeq(m, 1, a)))
       ELSE IF a = 0
       THEN \* month name, day, comma, four-digit year
            LET w == Run(m, 1, Len(m), Word)
                d == Run(m, w + 2, 2, Digit)
                month == MonthOf(SubSeq(m, 1, w))
            IN IF month = 0 THEN ParseError
               ELSE Resolved(DecVal(From(m, w + d + 4)), month,
                             DecVal(SubSeq(m, w + 2, w + 1 + d)))
       ELSE ParseError

\* strftime("%Y/%m/%d")
Strftime(dt) == Dec(dt.year, 4) \o <<"/">> \o Dec(dt.month, 2) \o <<"/">> \o Dec(dt.day, 2)

\* formatted_date: "" when nothing matches, and "" when parser.parse raises
\* (the except clause, lines 111-113)
extract_date_time(date_time_str) ==
    LET date_match == DateSearch(date_time_str, 1)
    IN IF date_match = NoMatch THEN <<>>
       ELSE IF ParseDate(date_match).ok THEN Strftime(ParseDate(date_match))
       ELSE <<>>

----------------------------------------------------------------------------
(* extract_transaction_data, lines 135-192 *)

Fields ==
    {"Transaction No", "Transaction Date", "Transaction Type", "Sender Name",
     "Amount", "Receiver Name", "Notes"}

\* lines 142-150
EmptyRecord == [f \in Fields |-> None]

\* ScanLine with the receiver test written as a fresh `if` instead of an
\* `elif`: a line an earlier rule took is offered to the receiver rule as well
ScanLineReceiverIf(td, line) ==
    LET first ==
            IF PatternGroup2(transtime_labels, line) # NoMatch
            THEN [td EXCEPT !["Transaction Date"] =
                      extract_date_time(Strip(PatternGroup2(transtime_labels, line)))]
            ELSE IF PatternGroup2(transno_labels, line) # NoMatch
            THEN [td EXCEPT !["Transaction No"] = Strip(PatternGroup2(transno_labels, line))]
            ELSE IF PatternGroup2(transtype_labels, line) # NoMatch
            THEN [td EXCEPT !["Transaction Type"] =
                      Strip(PatternGroup2(transtype_labels, line))]
            ELSE IF PatternGroup2(amount_data_labels, line) # NoMatch
            THEN [td EXCEPT !["Amount"] =
                      extract_amount_only(Strip(PatternGroup2(amount_data_labels, line)))]
            ELSE IF PatternGroup2(sender_labels, line) # NoMatch
            THEN [td EXCEPT !["Sender Name"] = Strip(PatternGroup2(sender_labels, line))]
            ELSE td
    IN IF PatternGroup2(receiver_labels, line) # NoMatch
       THEN [first EXCEPT !["Receiver Name"] = Strip(PatternGroup2(receiver_labels, line))]
       ELSE IF PatternGroup2(notes_labels, line) # NoMatch
       THEN [first EXCEPT !["Notes"] = Strip(PatternGroup2(notes_labels, line))]
       ELSE first

\* ScanLine that keeps a date already extracted when a later date line yields
\* none
ScanLineKeepDate(td, line) ==
    IF PatternGroup2(transtime_labels, line) # NoMatch
    THEN IF extract_date_time(Strip(PatternGroup2(transtime_labels, line))) = <<>>
            /\ td["Transaction Date"] # None
         THEN td
         ELSE [td EXCEPT !["Transaction Date"] =
                   extract_date_time(Strip(PatternGroup2(transtime_labels, line)))]
    ELSE IF PatternGroup2(transno_labels, line) # NoMatch
    THEN [td EXCEPT !["Transaction No"] = Strip(PatternGroup2(transno_labels, line))]
    ELSE IF PatternGroup2(transtype_labels, line) # NoMatch
    THEN [td EXCEPT !["Transaction Type"] = Strip(PatternGroup2(transtype_labels, line))]
    ELSE IF PatternGroup2(amount_data_labels, line) # NoMatch
    THEN [td EXCEPT !["Amount"] =
              extract_amount_only(Strip(PatternGroup2(amount_data_labels, line)))]
    ELSE IF PatternGroup2(sender_labels, line) # NoMatch
    THEN [td EXCEPT !["Sender Name"] = Strip(PatternGroup2(sender_labels, line))]
    ELSE IF PatternGroup2(receiver_labels, line) # NoMatch
    THEN [td EXCEPT !["Receiver Name"] = Strip(PatternGroup2(receiver_labels, line))]
    ELSE IF PatternGroup2(notes_labels, line) # NoMatch
    THEN [td EXCEPT !["Notes"] = Strip(PatternGroup2(notes_labels, line))]
    ELSE td

\* The body of the for loop, lines 153-190: one line against the if/elif chain
ScanLine(td, line) ==
    IF PatternGroup2(transtime_labels, line) # NoMatch
    THEN [td EXCEPT !["Transaction Date"] =
              extract_date_time(Strip(PatternGroup2(transtime_labels, line)))]
    ELSE IF PatternGroup2(transno_labels, line) # NoMatch
    THEN [td EXCEPT !["Transaction No"] = Strip(PatternGroup2(transno_labels, line))]
    ELSE IF PatternGroup2(transtype_labels, line) # NoMatch
    THEN [td EXCEPT !["Transaction Type"] = Strip(PatternGroup2(transtype_labels, line))]
    ELSE IF PatternGroup2(amount_data_labels, line) # NoMatch
    THEN [td EXCEPT !["Amount"] =
              extract_amount_only(Strip(PatternGroup2(amount_data_labels, line)))]
    ELSE IF PatternGroup2(sender_labels, line) # NoMatch
    THEN [td EXCEPT !["Sender Name"] = Strip(PatternGroup2(sender_labels, line))]
    ELSE IF PatternGroup2(receiver_labels, line) # NoMatch
    THEN [td EXCEPT !["Receiver Name"] = Strip(PatternGroup2(receiver_labels, line))]
    ELSE IF PatternGroup2(notes_labels, line) # NoMatch
    THEN [td EXCEPT !["Notes"] = Strip(PatternGroup2(notes_labels, line))]
    ELSE td

\* the for loop over the lines from position k on
RECURSIVE ScanFrom(_, _, _)
ScanFrom(td, ls, k) ==
    IF k > Len(ls) THEN td ELSE ScanFrom(ScanLine(td, ls[k]), ls, k + 1)

extract_transaction_data(t) == ScanFrom(EmptyRecord, split_text_into_lines(t), 1)

----------------------------------------------------------------------------
(* Bounds and inputs *)

\* the raw lines of a recognized text
MaxLines == 2

\* Raw lines a receipt's text is made of: each label family, a date label with
\* and without a date, amounts with and without leading numeric content, a
\* line two patterns match ("Total Amount" starts with "To"), a label with
\* nothing after it, lines no pattern matches, padding and a blank line.
RawLines ==
    { <<"T", "r", "a", "n", "s", "a", "c", "t", "i", "o", "n", " ", "D", "a", "t", "e", ":", " ", "1", "2", " ", "J", "u", "n", "e", " ", "2", "0", "2", "4", " ", "1", "4", ":", "3", "0">>,
      <<"D", "a", "t", "e", " ", "a", "n", "d", " ", "T", "i", "m", "e", ":", " ", "n", "/", "a">>,
      <<"T", "r", "a", "n", "s", "a", "c", "t", "i", "o", "n", " ", "D", "a", "t", "e", ":", " ", "2", "4", "/", "0", "6", "/", "2", "0", "1", "2">>,
      <<"T", "r", "a", "n", "s", "a", "c", "t", "i", "o", "n", " ", "I", "D", ":", " ", "T", "X", "1">>,
      <<"T", "y", "p", "e", ":", " ", "P", "a", "y">>,
      <<"A", "m", "o", "u", "n", "t", ":", " ", "1", ",", "5", "0", "0", ".", "0", "0", " ", "M", "M", "K">>,
      <<"T", "o", "t", "a", "l", " ", "A", "m", "o", "u", "n", "t", ":", " ", "-", "5", "0", ".", "0", "0">>,
      <<"A", "m", "o", "u", "n", "t", ":", " ", "M", "M", "K", " ", "5">>,
      <<"F", "r", "o", "m", ":", " ", "A", "l">>,
      <<"T", "o", ":", " ", "B", "o", "b">>,
      <<"N", "o", "t", "e", "s">>,
      <<"N", "o", "t", "e", ":", " ", "R", "e", "n", "t">>,
      <<" ", " ", "H", "e", "l", "l", "o">>,
      <<" ", " ", " ">>,
      <<"T", "o", "d", "a", "y">>,
      <<>> }

\* str.split("\n") gives at least one raw line
Texts == UNION {[1..n -> RawLines] : n \in 1..MaxLines}

----------------------------------------------------------------------------
(* The parts of the state a specification does not exercise *)

AppOff ==
    /\ all_transaction_details = <<>>
    /\ uploaded_files = <<>>
    /\ processed_files = {}
    /\ idx = 0
    /\ run_log = <<>>
    /\ pc = "off"
    /\ df_amount = <<>>
    /\ total_amount = <<>>

ExOff ==
    /\ text = << <<>> >>
    /\ lines = <<>>
    /\ li = 0
    /\ transaction_data = EmptyRecord
    /\ xpc = "off"

AmtOff ==
    /\ amount_in = <<>>
    /\ amount_out = <<>>
    /\ apc = "off"

DateOff ==
    /\ date_in = <<>>
    /\ date_out1 = <<>>
    /\ date_out2 = <<>>
    /\ dpc = "off"

----------------------------------------------------------------------------
(* SpecExtract: extract_transaction_data on every text, one line per step *)

InitExtract ==
    /\ AppOff /\ AmtOff /\ DateOff
    /\ text \in Texts
    /\ lines = split_text_into_lines(text)
    /\ li = 0
    /\ transaction_data = EmptyRecord
    /\ xpc = "scan"

\* one iteration of the for loop, line 152
NextLine ==
    /\ xpc = "scan"
    /\ li < Len(lines)
    /\ li' = li + 1
    /\ transaction_data' = ScanLine(transaction_data, lines[li + 1])
    /\ UNCHANGED <<text, lines, xpc, appVars, amtVars, dateVars>>

\* line 192
Return ==
    /\ xpc = "scan"
    /\ li = Len(lines)
    /\ xpc' = "returned"
    /\ UNCHANGED <<text, lines, li, transaction_data, appVars, amtVars, dateVars>>

NextExtract == NextLine \/ Return

SpecExtract == InitExtract /\ [][NextExtract]_vars

----------------------------------------------------------------------------
(* Properties of extract_transaction_data, under SpecExtract *)

\* The rules in the order the spec gives them: date/time, transaction number,
\* transaction type, amount, sender, receiver, notes
RuleOrder ==
    << [field |-> "Transaction Date", labels |-> transtime_labels],
       [field |-> "Transaction No", labels |-> transno_labels],
       [field |-> "Transaction Type", labels |-> transtype_labels],
       [field |-> "Amount", labels |-> amount_data_labels],
       [field |-> "Sender Name", labels |-> sender_labels],
       [field |-> "Receiver Name", labels |-> receiver_labels],
       [field |-> "Notes", labels |-> notes_labels] >>

RuleMatches(k, line) == PatternGroup2(RuleOrder[k].labels, line) # NoMatch

MatchingRules(line) == {k \in 1..Len(RuleOrder) : RuleMatches(k, line)}

\* the first rule in the order to match the line, 0 when none does
FirstRule(line) ==
    IF MatchingRules(line) = {} THEN 0
    ELSE CHOOSE k \in MatchingRules(line) : \A j \in MatchingRules(line) : k <= j

\* the value rule k stores for a line it matches
RuleValue(k, line) ==
    LET raw == Strip(PatternGroup2(RuleOrder[k].labels, line))
    IN IF RuleOrder[k].field = "Transaction Date" THEN extract_date_time(raw)
       ELSE IF RuleOrder[k].field = "Amount" THEN extract_amount_only(raw)
       ELSE raw

ChangedFields == {f \in Fields : transaction_data'[f] # transaction_data[f]}

\* C3: in the record extract_transaction_data returns, every field is None
\* or a non-empty str; the empty str never appears as a field value.
C3_FieldsAbsentOrNonEmpty ==
    xpc = "returned" =>
        \A f \in Fields : transaction_data[f] = None \/ transaction_data[f] # <<>>

\* C9: every line scanned is a trimmed non-empty line; a step of the scan
\* changes at most one field, the field of the first rule in the fixed order
\* that matches the line, and a line no rule matches changes nothing.
C9_FirstMatchingRuleOnly ==
    [][li' = li + 1 =>
          LET line == lines[li']
          IN /\ line # <<>> /\ Strip(line) = line
             /\ Cardinality(ChangedFields) <= 1
             /\ \A f \in ChangedFields :
                    /\ FirstRule(line) # 0
                    /\ f = RuleOrder[FirstRule(line)].field
             /\ FirstRule(line) # 0 =>
                    transaction_data'[RuleOrder[FirstRule(line)].field]
                        = RuleValue(FirstRule(line), line)]_vars

\* C9's case: a line that both the amount and the receiver rule match has been
\* scanned, and only the amount was assigned.
C9_Witness ==
    /\ li >= 1
    /\ {4, 6} \subseteq MatchingRules(lines[li])
    /\ transaction_data["Amount"] # None
    /\ transaction_data["Receiver Name"] = None

LinesOfRule(k) == {i \in 1..Len(lines) : FirstRule(lines[i]) = k}

LastLineOfRule(k) == CHOOSE i \in LinesOfRule(k) : \A j \in LinesOfRule(k) : j <= i

\* C10: in the returned record each field holds the value of the last line, in
\* document order, that its rule consumed (None when no line was), so a later
\* date line with no parseable date replaces an earlier extracted date.
C10_LastLineWins ==
    xpc = "returned" =>
        \A k \in 1..Len(RuleOrder) :
            transaction_data[RuleOrder[k].field] =
                IF LinesOfRule(k) = {} THEN None
                ELSE RuleValue(k, lines[LastLineOfRule(k)])

\* C10's case: a date line with a date, then a date line without one
C10_Witness ==
    /\ xpc = "returned"
    /\ Len(lines) = 2
    /\ FirstRule(lines[1]) = 1 /\ RuleValue(1, lines[1]) # <<>>
    /\ FirstRule(lines[2]) = 1 /\ RuleValue(1, lines[2]) = <<>>
    /\ transaction_data["Transaction Date"] = <<>>

----------------------------------------------------------------------------
(* SpecAmount: extract_amount_only on raw amounts *)

\* comma-grouped digit triples after the leading digits
MaxGroups == 1

AmountLeads == {<<>>, <<"-">>, <<EmDash>>}
AmountHeads == {<<"7">>, <<"1", "2">>, <<"1", "2", "3">>}
AmountFractions == {<<>>, <<".", "5", "0">>}
CurrencyTokens ==
    {<<>>, <<" ", "M", "M", "K">>, <<"K", "s">>, <<" ", "K", "y", "a", "t">>}

RECURSIVE Triples(_)
Triples(g) == IF g = 0 THEN <<>> ELSE <<",", "4", "5", "0">> \o Triples(g - 1)

\* A raw amount of the shape [-<dash>]?\d{1,3}(,\d{3})*(\.\d{2})? with an
\* optional currency token, together with the number it writes: its sign, its
\* whole part and its hundredths
NumericAmounts ==
    { [raw |-> lead \o head \o Triples(g) \o frac \o cur,
       numeric |-> TRUE,
       negative |-> lead # <<>>,
       whole |-> DecVal(Remove(head \o Triples(g), ",")),
       hundredths |-> IF frac = <<>> THEN 0 ELSE DecVal(Tail(frac))] :
        lead \in AmountLeads, head \in AmountHeads, g \in 0..MaxGroups,
        frac \in AmountFractions, cur \in CurrencyTokens }

\* Trimmed values with no numeric content
TextAmounts ==
    { [raw |-> r, numeric |-> FALSE, negative |-> FALSE, whole |-> 0, hundredths |-> 0] :
        r \in { <<"M", "M", "K">>, <<"K", "s">>, <<"n", "/", "a">>,
                <<"K", "y", "a", "t">>, <<"f", "r", "e", "e">> } }

InitAmount ==
    /\ AppOff /\ ExOff /\ DateOff
    /\ amount_in \in NumericAmounts \cup TextAmounts
    /\ amount_out = <<>>
    /\ apc = "call"

CallAmount ==
    /\ apc = "call"
    /\ amount_out' = extract_amount_only(amount_in.raw)
    /\ apc' = "returned"
    /\ UNCHANGED <<amount_in, appVars, exVars, dateVars>>

NextAmount == CallAmount

SpecAmount == InitAmount /\ [][NextAmount]_vars

\* float(s) for a str with an optional minus, digits and an optional
\* two-digit fraction: its sign, whole part and hundredths; not ok for
\* anything else
ParseDecimal(s) ==
    LET body == IF s # <<>> /\ s[1] = "-" THEN Tail(s) ELSE s
        n == Run(body, 1, Len(body), Digit)
        rest == From(body, n + 1)
    IN IF n >= 1 /\ rest = <<>>
       THEN [ok |-> TRUE, negative |-> body # s, whole |-> DecVal(body), hundredths |-> 0]
       ELSE IF n >= 1 /\ Len(rest) = 3 /\ rest[1] = "." /\ Run(rest, 2, 2, Digit) = 2
       THEN [ok |-> TRUE, negative |-> body # s, whole |-> DecVal(SubSeq(body, 1, n)),
             hundredths |-> DecVal(Tail(rest))]
       ELSE [ok |-> FALSE, negative |-> FALSE, whole |-> 0, hundredths |-> 0]

\* C4: for a raw amount of the numeric shape, the returned str carries no
\* currency token, and with its commas removed it parses to the same
\* magnitude with the sign kept (a leading minus or dash gives a negative
\* value).
C4_AmountMagnitudeAndSign ==
    apc = "returned" /\ amount_in.numeric =>
        /\ \A i \in 1..Len(amount_out) : amount_out[i] \notin Letter
        /\ ParseDecimal(Remove(amount_out, ",")).ok
        /\ ParseDecimal(Remove(amount_out, ",")).whole = amount_in.whole
        /\ ParseDecimal(Remove(amount_out, ",")).hundredths = amount_in.hundredths
        /\ ParseDecimal(Remove(amount_out, ",")).negative = amount_in.negative

\* C5: for an input with no numeric content, the original trimmed input is
\* returned unchanged.
C5_NoNumericContentUnchanged ==
    apc = "returned" /\ (\A i \in 1..Len(amount_in.raw) : amount_in.raw[i] \notin Digit) =>
        amount_out = Strip(amount_in.raw)

----------------------------------------------------------------------------
(* SpecDate: the date of extract_date_time, and the date of its own output *)

DateDays == {1, 12, 24, 31}
DateMonths == {2, 6, 12}
DateYears == {1999, 2012, 2024, 2045}

\* " 14:30", the time that follows the date on a receipt, or nothing
DateTails == {<<>>, <<" ", "1", "4", ":", "3", "0">>}

\* The date shapes of date_pattern: DD/MM/YYYY, D-M-YYYY, D Month YYYY and
\* Month D, YYYY, each alone or followed by a time; and a value with no date.
DateInputs ==
    UNION {
        { Dec(d, 2) \o <<"/">> \o Dec(m, 2) \o <<"/">> \o Dec(y, 4) \o t,
          Dec(d, 1) \o <<"-">> \o Dec(m, 1) \o <<"-">> \o Dec(y, 4) \o t,
          Dec(d, 1) \o <<" ">> \o MonthNames[m] \o <<" ">> \o Dec(y, 4) \o t,
          MonthNames[m + 12] \o <<" ">> \o Dec(d, 1) \o <<",", " ">> \o Dec(y, 4) \o t } :
        <<d, m, y, t>> \in DateDays \X DateMonths \X DateYears \X DateTails }
    \cup {<<"n", "/", "a">>}

InitDate ==
    /\ AppOff /\ ExOff /\ AmtOff
    /\ date_in \in DateInputs
    /\ date_out1 = <<>>
    /\ date_out2 = <<>>
    /\ dpc = "call"

\* formatted_date of extract_date_time(date_in)
NormalizeDate ==
    /\ dpc = "call"
    /\ date_out1' = extract_date_time(date_in)
    /\ dpc' = "once"
    /\ UNCHANGED <<date_in, date_out2, appVars, exVars, amtVars>>

\* formatted_date of extract_date_time on the canonical str just produced
NormalizeAgain ==
    /\ dpc = "once"
    /\ date_out2' = extract_date_time(date_out1)
    /\ dpc' = "twice"
    /\ UNCHANGED <<date_in, date_out1, appVars, exVars, amtVars>>

NextDate == NormalizeDate \/ NormalizeAgain

SpecDate == InitDate /\ [][NextDate]_vars

\* C6: for a date-bearing input, the date of the YYYY/MM/DD str that
\* extract_date_time produced is that same str.
C6_DateIdempotent ==
    dpc = "twice" /\ date_out1 # <<>> => date_out2 = date_out1

----------------------------------------------------------------------------
(* main(), lines 195-303: one run of the script over the uploaded batch *)

\* what extract_text_from_image returns when the OCR pipeline raises
NoText == << <<"None">> >>

\* `if extracted_text:` written as `if extracted_text is not None:`
TruthyUnlessNone(t) == t # NoText

\* `if extracted_text:`, line 221: neither None nor ""
Truthy(t) == t # NoText /\ t # << <<>> >>

\* lines 223-224
RecordOf(f) ==
    LET transaction_details == extract_transaction_data(f.text)
    IN [k \in Fields \cup {"image_file"} |->
           IF k = "image_file" THEN f.name ELSE transaction_details[k]]

\* The body of the for loop, lines 212-231, for one uploaded file: the records
\* after it, and what it did.  A file that does not open raises inside the
\* try, and the except clause reports it (st.error).
ProcessFile(details, processed, f) ==
    IF f.name \in processed
    THEN [details |-> details,
          entry |-> [name |-> f.name, did |-> "skipped", extracted |-> FALSE]]
    ELSE IF ~f.opens
    THEN [details |-> details,
          entry |-> [name |-> f.name, did |-> "error", extracted |-> FALSE]]
    ELSE IF Truthy(f.text)
    THEN [details |-> Append(details, RecordOf(f)),
          entry |-> [name |-> f.name, did |-> "appended", extracted |-> TRUE]]
    ELSE [details |-> details,
          entry |-> [name |-> f.name, did |-> "warning", extracted |-> FALSE]]

\* An iteration with the try around the loop instead of inside it: a file that
\* raises ends the batch
IterationAbortingOnError(details, processed, files, k, log) ==
    LET r == ProcessFile(details, processed, files[k + 1])
    IN [details |-> r.details,
        log |-> Append(log, r.entry),
        idx |-> IF r.entry.did = "error" THEN Len(files) ELSE k + 1]

\* One iteration of the for loop, line 211, after k files: the exception of
\* one file is caught inside the iteration, and the loop goes on to the next.
Iteration(details, processed, files, k, log) ==
    LET r == ProcessFile(details, processed, files[k + 1])
    IN [details |-> r.details, log |-> Append(log, r.entry), idx |-> k + 1]

\* A cell of the numeric Amount column: a number of hundredths, or NaN
NaN == [nan |-> TRUE, hundredths |-> 0]
Number(h) == [nan |-> FALSE, hundredths |-> h]

\* Series.replace(r"[^\d.]", "", regex=True) on one cell: None stays None
RECURSIVE KeepDigitsAndDots(_)
KeepDigitsAndDots(s) ==
    IF s = <<>> THEN <<>>
    ELSE (IF s[1] \in Digit \cup {"."} THEN <<s[1]>> ELSE <<>>)
         \o KeepDigitsAndDots(Tail(s))

ReplaceNonNumeric(cell) == IF cell = None THEN None ELSE KeepDigitsAndDots(cell)

\* float(cell) for a str of digits and dots, in hundredths; not ok for "" and
\* for what float() refuses.  extract_amount_only leaves digits with an
\* optional two-digit fraction.
FloatOf(cell) ==
    LET w == Run(cell, 1, Len(cell), Digit)
        rest == From(cell, w + 1)
    IN IF rest = <<>> /\ w >= 1
       THEN [ok |-> TRUE, hundredths |-> 100 * DecVal(cell)]
       ELSE IF /\ Len(rest) = 3 /\ rest[1] = "."
               /\ Run(rest, 2, 2, Digit) = 2
       THEN [ok |-> TRUE,
             hundredths |-> 100 * DecVal(SubSeq(cell, 1, w)) + DecVal(Tail(rest))]
       ELSE [ok |-> FALSE, hundredths |-> 0]

\* to_numeric that turns what it cannot parse into 0 instead of NaN
ToNumericOrZero(cell) ==
    IF cell = None \/ ~FloatOf(cell).ok THEN Number(0)
    ELSE Number(FloatOf(cell).hundredths)

\* pd.to_numeric(..., errors="coerce") on one cell: None, "" and anything
\* float() refuses become NaN
ToNumeric(cell) ==
    IF cell = None \/ ~FloatOf(cell).ok THEN NaN
    ELSE Number(FloatOf(cell).hundredths)

\* lines 262-264
AmountColumn(details) ==
    [i \in 1..Len(details) |-> ToNumeric(ReplaceNonNumeric(details[i]["Amount"]))]

\* Series.sum(), line 287: NaN cells are skipped
RECURSIVE SeriesSum(_)
SeriesSum(col) ==
    IF col = <<>> THEN 0
    ELSE (IF col[1].nan THEN 0 ELSE col[1].hundredths) + SeriesSum(Tail(col))

----------------------------------------------------------------------------
(* Spec: a session of runs of main() *)

\* the files of one upload
MaxBatch == 2

FileNames == {"a.png", "b.png", "c.png"}

\* What the recognizer makes of the images: an amount with grouping commas and
\* a currency token, no amount line, a plain amount, an amount with no leading
\* numeric content, and the empty str; NoText is its failure.
TextComma ==
    << <<"A", "m", "o", "u", "n", "t", ":", " ", "1", ",", "5", "0", "0", ".", "0", "0", " ", "M", "M", "K">> >>
TextNoAmount == << <<"F", "r", "o", "m", ":", " ", "A", "l">> >>
TextPlain == << <<"A", "m", "o", "u", "n", "t", ":", " ", "1", "0", "0", ".", "0", "0">> >>
TextBadAmount == << <<"A", "m", "o", "u", "n", "t", ":", " ", "M", "M", "K", " ", "5">> >>
TextEmpty == << <<>> >>

\* An uploaded file: its name, whether Image.open and the colour conversion
\* succeed, and what extract_text_from_image returns for it.  Files of one
\* name may differ in content.
UploadedFiles ==
    [name : {"a.png"}, opens : {TRUE}, text : {TextComma, TextEmpty}]
    \cup [name : {"b.png"}, opens : {TRUE}, text : {TextPlain, TextBadAmount, NoText}]
    \cup [name : {"c.png"}, opens : {TRUE}, text : {TextNoAmount}]
    \cup [name : {"a.png", "c.png"}, opens : {FALSE}, text : {NoText}]

Batches == UNION {[1..n -> UploadedFiles] : n \in 0..MaxBatch}

Init ==
    /\ ExOff /\ AmtOff /\ DateOff
    /\ all_transaction_details = <<>>
    /\ uploaded_files = <<>>
    /\ processed_files = {}
    /\ idx = 0
    /\ run_log = <<>>
    /\ df_amount = <<>>
    /\ total_amount = <<>>
    /\ pc = "idle"

\* A run of the script starts, lines 196-209: the uploader returns the batch,
\* and the names already in the session are collected once
StartRun ==
    /\ pc = "idle"
    /\ \E batch \in Batches : uploaded_files' = batch
    /\ processed_files' = {all_transaction_details[i]["image_file"] :
                               i \in 1..Len(all_transaction_details)}
    /\ idx' = 0
    /\ run_log' = <<>>
    /\ pc' = "loop"
    /\ UNCHANGED <<all_transaction_details, df_amount, total_amount,
                   exVars, amtVars, dateVars>>

\* lines 211-231, the next uploaded file
ProcessNext ==
    /\ pc = "loop"
    /\ idx < Len(uploaded_files)
    /\ LET r == Iteration(all_transaction_details, processed_files,
                          uploaded_files, idx, run_log)
       IN /\ all_transaction_details' = r.details
          /\ run_log' = r.log
          /\ idx' = r.idx
    /\ UNCHANGED <<uploaded_files, processed_files, df_amount, total_amount, pc,
                   exVars, amtVars, dateVars>>

\* lines 233-303, after the loop: the table and the total when there is a
\* record to show; the run ends and its locals go
ShowTable ==
    /\ pc = "loop"
    /\ idx = Len(uploaded_files)
    /\ IF all_transaction_details # <<>>
       THEN /\ df_amount' = AmountColumn(all_transaction_details)
            /\ total_amount' = <<SeriesSum(AmountColumn(all_transaction_details))>>
       ELSE UNCHANGED <<df_amount, total_amount>>
    /\ uploaded_files' = <<>>
    /\ processed_files' = {}
    /\ idx' = 0
    /\ run_log' = <<>>
    /\ pc' = "idle"
    /\ UNCHANGED <<all_transaction_details, exVars, amtVars, dateVars>>

Next == StartRun \/ ProcessNext \/ ShowTable

Spec == Init /\ [][Next]_vars

----------------------------------------------------------------------------
(* Properties of main(), under Spec *)

\* C1: no two records of the accumulated dataset carry the same image_file.
C1_UniqueImageFile ==
    \A i, j \in 1..Len(all_transaction_details) :
        i # j => all_transaction_details[i]["image_file"]
                     # all_transaction_details[j]["image_file"]

\* C2: when the loop reaches a file that opens, is not in the session yet,
\* and whose recognizer output is "" or None, it appends no record, does not
\* call extract_transaction_data, and warns naming the file.
C2_NoTextNoRecord ==
    [][(/\ pc = "loop"
        /\ idx' = idx + 1
        /\ uploaded_files[idx'].opens
        /\ uploaded_files[idx'].name \notin processed_files
        /\ uploaded_files[idx'].text \in {TextEmpty, NoText})
       => /\ all_transaction_details' = all_transaction_details
          /\ run_log' = Append(run_log, [name |-> uploaded_files[idx'].name,
                                         did |-> "warning",
                                         extracted |-> FALSE])]_vars

\* C2's case: in one batch the recognizer returned "" for one file and failed
\* on another, and the loop warned about both
C2_Witness ==
    /\ pc = "loop"
    /\ \E i, j \in 1..idx :
        /\ uploaded_files[i].opens /\ uploaded_files[i].text = TextEmpty
        /\ uploaded_files[j].opens /\ uploaded_files[j].text = NoText
        /\ run_log[i].did = "warning" /\ run_log[j].did = "warning"

\* whether a stored Amount is a number once its grouping commas are removed
IsNumber(amount) == amount # None /\ ParseDecimal(Remove(amount, ",")).ok

HundredthsOf(amount) ==
    100 * ParseDecimal(Remove(amount, ",")).whole
        + ParseDecimal(Remove(amount, ",")).hundredths

RECURSIVE SumOfNumbers(_)
SumOfNumbers(details) ==
    IF details = <<>> THEN 0
    ELSE (IF IsNumber(details[1]["Amount"]) THEN HundredthsOf(details[1]["Amount"]) ELSE 0)
         + SumOfNumbers(Tail(details))

\* C7: after a run that shows the table, the total is the sum of the Amounts
\* that are numbers; an absent or non-numeric Amount is a missing value in the
\* numeric column, not zero, and adds nothing.
C7_TotalSkipsMissing ==
    pc = "idle" /\ all_transaction_details # <<>> =>
        /\ Len(df_amount) = Len(all_transaction_details)
        /\ \A i \in 1..Len(all_transaction_details) :
               LET amount == all_transaction_details[i]["Amount"]
               IN IF IsNumber(amount)
                  THEN df_amount[i] = Number(HundredthsOf(amount))
                  ELSE df_amount[i].nan
        /\ total_amount = <<SumOfNumbers(all_transaction_details)>>

\* C7's case: amounts 1,500.00, absent and 100.00 total 1600.00
C7_Witness ==
    /\ pc = "idle"
    /\ Len(all_transaction_details) = 3
    /\ IsNumber(all_transaction_details[1]["Amount"])
    /\ all_transaction_details[2]["Amount"] = None
    /\ IsNumber(all_transaction_details[3]["Amount"])
    /\ all_transaction_details[1]["Amount"] # all_transaction_details[3]["Amount"]
    /\ df_amount[2].nan
    /\ total_amount = <<160000>>

\* the files of the batch that open, give a non-empty text and were not in
\* the session when the run started, in upload order
NewDocuments ==
    SelectSeq(uploaded_files,
              LAMBDA f : /\ f.opens
                         /\ f.text \notin {TextEmpty, NoText}
                         /\ f.name \notin processed_files)

\* C8: when the loop ends, every file of the batch has been handled, whatever
\* failed before it, and the records appended in this run are those of the
\* new documents, in upload order, after the records the session held.
C8_FailuresDoNotAbort ==
    pc = "loop" /\ idx = Len(uploaded_files) =>
        LET n == Len(NewDocuments)
            m == Len(all_transaction_details) - n
        IN /\ Len(run_log) = Len(uploaded_files)
           /\ \A k \in 1..Len(uploaded_files) : run_log[k].name = uploaded_files[k].name
           /\ m >= 0
           /\ {all_transaction_details[i]["image_file"] : i \in 1..m} = processed_files
           /\ \A i \in 1..n : all_transaction_details[m + i] = RecordOf(NewDocuments[i])

\* C8's case: the first file of the batch failed to open and the second was
\* appended
C8_Witness ==
    /\ pc = "loop"
    /\ idx = Len(uploaded_files)
    /\ idx >= 2
    /\ run_log[1].did = "error"
    /\ run_log[2].did = "appended"
    /\ all_transaction_details[Len(all_transaction_details)]["image_file"]
           = uploaded_files[2].name

============================================================================
